---- MODULE Spec2Model ----
(***************************************************************************)
(* A model of four pipes of the riko / pipe2py dataflow runtime:           *)
(*   riko.modules.pipetail               (trailing window, sync and async) *)
(*   pipe2py.modules.pipeuniq            (uniqueness filter)               *)
(*   pipe2py.modules.pipedatebuilder     (date construction)               *)
(*   pipe2py.modules.piperssitembuilder  (RSS record remapping)            *)
(*                                                                         *)
(* Python values are tagged records: the tag is the Python type, so that   *)
(* a call on a value of the wrong type is an exception in the model as it  *)
(* is in the interpreter.  A Python str is a tuple of one-character        *)
(* strings, so that lower(), endswith(), split() and int() are computed.   *)
(* A dict is a function from (str) keys to values.                         *)
(***************************************************************************)
EXTENDS Integers, Sequences, FiniteSets, TLC

\* ------------------------------------------------------------ bounds
MaxLen == 3
MaxCount == 3
MaxClock == 2
MaxOffset == 1
MaxDates == 2

\* Ticks of the clock in one calendar day (the clock is finer than a day).
TicksPerDay == 2

\* ------------------------------------------------------------ Python values
None == [type |-> "NoneType"]
PyInt(n) == [type |-> "int", n |-> n]
PyStr(s) == [type |-> "str", s |-> s]
PyDict(d) == [type |-> "dict", d |-> d]
PyDatetime(t) == [type |-> "datetime", t |-> t]
PyStructTime(t) == [type |-> "struct_time", tt |-> t]
PyIsoString(t) == [type |-> "str_iso", iso |-> t]
Raise(e) == [type |-> "exception", exc |-> e]
IsException(v) == v.type = "exception"

Digits == <<"0", "1", "2", "3", "4", "5", "6", "7", "8", "9">>
IsDigit(c) == \E i \in 1..Len(Digits) : Digits[i] = c
DigitVal(c) == (CHOOSE i \in 1..Len(Digits) : Digits[i] = c) - 1

RECURSIVE strip(_)
\* str.strip(): leading and trailing blanks removed (int() does this first)
strip(s) ==
    IF s = <<>> THEN s
    ELSE IF Head(s) = " " THEN strip(Tail(s))
    ELSE IF s[Len(s)] = " " THEN strip(SubSeq(s, 1, Len(s) - 1))
    ELSE s

RECURSIVE atoi(_)
\* the value of a non-empty string of decimal digits
atoi(s) ==
    IF Len(s) = 0 THEN 0
    ELSE atoi(SubSeq(s, 1, Len(s) - 1)) * 10 + DigitVal(s[Len(s)])

AllDigits(s) == s # <<>> /\ \A i \in 1..Len(s) : IsDigit(s[i])

\* int(str): optional sign, then decimal digits; anything else is ValueError
int_str(s) ==
    LET t == strip(s)
        signed == t # <<>> /\ Head(t) \in {"-", "+"}
        body == IF signed THEN Tail(t) ELSE t
    IN  IF ~AllDigits(body) THEN Raise("ValueError")
        ELSE IF signed /\ Head(t) = "-" THEN PyInt(0 - atoi(body))
        ELSE PyInt(atoi(body))

\* the builtin int(): an int is returned as it is, a str is parsed, None and
\* containers are a TypeError
int(v) ==
    IF v.type = "int" THEN v
    ELSE IF v.type = "str" THEN int_str(v.s)
    ELSE Raise("TypeError")

\* ------------------------------------------------------------ strings used
s_x == <<"x">>
s_y == <<"y">>
s_count == <<"c", "o", "u", "n", "t">>

\* ------------------------------------------------------------ state
VARIABLES
    clock,      \* the current time, in ticks
    SWITCH,     \* pipedatebuilder.SWITCH, built when the module is loaded
    DEFAULTS,   \* piperssitembuilder.DEFAULTS, built when the module is loaded
    kind,       \* which pipe this run exercises
    input,      \* the upstream stream: a sequence of items (dicts)
    conf,       \* the pipe configuration of the run
    pos,        \* per pipe instance: upstream items consumed so far
    buf,        \* pipetail: per form, the deque being filled by parser
    seen,       \* pipeuniq: per stage, the set `seen` of unique_items
    out,        \* per pipe instance: what its consumer has received so far
    status,     \* per pipe instance: idle, running, ..., done, error
    want        \* per lazy generator: a next() call is outstanding

vars == <<clock, SWITCH, DEFAULTS, kind, input, conf, pos, buf, seen, out,
          status, want>>

Forms == {"sync", "async"}

\* ------------------------------------------------------------ module load
s_today == <<"t", "o", "d", "a", "y">>
s_tomorrow == <<"t", "o", "m", "o", "r", "r", "o", "w">>
s_yesterday == <<"y", "e", "s", "t", "e", "r", "d", "a", "y">>
s_now == <<"n", "o", "w">>
s_pubDate == <<"p", "u", "b", "D", "a", "t", "e">>

\* datetime + timedelta(days=n)
timedelta_days(n) == n * TicksPerDay
datetime_add(dt, delta) == PyDatetime(dt.t + delta)

\* x.timetuple(): a method of datetime only; None and struct_time have none
timetuple(v) ==
    IF v.type = "datetime" THEN PyStructTime(v.t) ELSE Raise("AttributeError")

\* the SWITCH table as the module-level statement builds it at time t
SWITCH_at(t) ==
    [k \in {s_today, s_tomorrow, s_yesterday, s_now} |->
        IF k = s_today THEN PyDatetime(t)
        ELSE IF k = s_tomorrow THEN datetime_add(PyDatetime(t), timedelta_days(1))
        ELSE IF k = s_yesterday THEN datetime_add(PyDatetime(t), timedelta_days(0 - 1))
        ELSE timetuple(PyDatetime(t))]

\* DEFAULTS = {'pubDate': dt.now().isoformat()} as built at time t
DEFAULTS_at(t) == [k \in {s_pubDate} |-> PyIsoString(t)]

\* the state once the modules are imported
InitModule ==
    /\ clock = 0
    /\ SWITCH = SWITCH_at(clock)
    /\ DEFAULTS = DEFAULTS_at(clock)

\* time passes between any two steps of a pipe
Tick ==
    /\ clock < MaxClock
    /\ clock' = clock + 1
    /\ UNCHANGED <<SWITCH, DEFAULTS, kind, input, conf, pos, buf, seen, out,
                   status, want>>

\* finite sequences over S of length at most n
SeqUpTo(S, n) == UNION {[1..k -> S] : k \in 0..n}

\* ------------------------------------------------------------ pipetail
\* the items the tail pipe is fed: three distinguishable records
TailItems == {[k \in {s_x} |-> PyInt(1)], [k \in {s_x} |-> PyInt(2)],
              [k \in {s_y} |-> PyInt(1)]}

\* values of conf['count']: integers, numeric and non-numeric text, absent
TailCounts == {PyInt(n) : n \in (0 - 1)..MaxCount}
                \cup {PyStr(<<"2">>), PyStr(<<"x">>), None}

InitTail ==
    /\ InitModule
    /\ kind = "tail"
    /\ input \in SeqUpTo(TailItems, MaxLen)
    /\ conf \in {[k \in {s_count} |-> c] : c \in TailCounts}
    /\ pos = [f \in Forms |-> 0]
    /\ buf = [f \in Forms |-> <<>>]
    /\ out = [f \in Forms |-> <<>>]
    /\ status = [f \in Forms |-> "idle"]
    /\ seen = <<>>
    /\ want = <<>>

\* a constructor that takes any integer as the bound
deque_new_unchecked(maxlen) == maxlen

\* collections.deque(maxlen=n): a negative maxlen is a ValueError
deque_new(maxlen) ==
    IF IsException(maxlen) THEN maxlen
    ELSE IF maxlen.n < 0 THEN Raise("ValueError")
    ELSE PyInt(maxlen.n)

\* a deque without a bound: every element is kept
deque_append_unbounded(d, x, maxlen) == Append(d, x)

\* a bounded deque that, once full, refuses the new element instead of
\* dropping the oldest one: the first maxlen elements are kept
deque_append_keep_first(d, x, maxlen) ==
    IF Len(d) >= maxlen THEN d ELSE Append(d, x)

\* deque.append on a bounded deque: the new element goes to the right and,
\* when the deque is then longer than maxlen, the leftmost one is dropped
deque_append(d, x, maxlen) ==
    LET e == Append(d, x)
    IN  IF Len(e) > maxlen THEN Tail(e) ELSE e

\* parser, entered: int(objconf.count) and the deque constructor's check
TailCall(f) ==
    /\ kind = "tail"
    /\ status[f] = "idle"
    /\ LET maxlen == deque_new(int(conf[s_count]))
       IN  status' = [status EXCEPT ![f] =
                        IF IsException(maxlen) THEN "error" ELSE "buffering"]
    /\ UNCHANGED <<clock, SWITCH, DEFAULTS, kind, input, conf, pos, buf, seen,
                   out, want>>

\* parser, one turn of deque's loop over the stream
TailExtend(f) ==
    /\ kind = "tail"
    /\ status[f] = "buffering"
    /\ pos[f] < Len(input)
    /\ pos' = [pos EXCEPT ![f] = @ + 1]
    /\ buf' = [buf EXCEPT ![f] =
                 deque_append(@, input[pos[f] + 1], int(conf[s_count]).n)]
    /\ UNCHANGED <<clock, SWITCH, DEFAULTS, kind, input, conf, seen, out,
                   status, want>>

\* parser returns the deque once the stream is exhausted
TailReturn(f) ==
    /\ kind = "tail"
    /\ status[f] = "buffering"
    /\ pos[f] = Len(input)
    /\ status' = [status EXCEPT ![f] = "flushing"]
    /\ UNCHANGED <<clock, SWITCH, DEFAULTS, kind, input, conf, pos, buf, seen,
                   out, want>>

\* parser(stream, objconf, tuples): deque(stream, int(objconf.count))
tail_parser(f) == TailCall(f) \/ TailExtend(f) \/ TailReturn(f)

\* pipe(*args, **kwargs): return parser(*args, **kwargs)
tail_pipe == tail_parser("sync")

\* an asynchronous entry point with a parser of its own, which keeps the
\* first N items
tail_asyncPipe_own_parser ==
    \/ TailCall("async")
    \/ /\ kind = "tail"
       /\ status["async"] = "buffering"
       /\ pos["async"] < Len(input)
       /\ pos' = [pos EXCEPT !["async"] = @ + 1]
       /\ buf' = [buf EXCEPT !["async"] =
                    deque_append_keep_first(@, input[pos["async"] + 1],
                                            int(conf[s_count]).n)]
       /\ UNCHANGED <<clock, SWITCH, DEFAULTS, kind, input, conf, seen, out,
                      status, want>>
    \/ TailReturn("async")

\* asyncPipe(*args, **kwargs): return parser(*args, **kwargs)
tail_asyncPipe == tail_parser("async")

\* the synchronous wrapper hands the parser's result to its consumer one
\* element per next() call, and is exhausted after the last one
TailYield ==
    /\ kind = "tail"
    /\ status["sync"] = "flushing"
    /\ IF Len(out["sync"]) < Len(buf["sync"])
       THEN /\ out' = [out EXCEPT !["sync"] =
                         Append(@, buf["sync"][Len(out["sync"]) + 1])]
            /\ UNCHANGED status
       ELSE /\ status' = [status EXCEPT !["sync"] = "done"]
            /\ UNCHANGED out
    /\ UNCHANGED <<clock, SWITCH, DEFAULTS, kind, input, conf, pos, buf, seen,
                   want>>

\* the asynchronous wrapper fires its Deferred once, with the whole result
TailCallback ==
    /\ kind = "tail"
    /\ status["async"] = "flushing"
    /\ out' = [out EXCEPT !["async"] = buf["async"]]
    /\ status' = [status EXCEPT !["async"] = "done"]
    /\ UNCHANGED <<clock, SWITCH, DEFAULTS, kind, input, conf, pos, buf, seen,
                   want>>

NextTail == Tick \/ tail_pipe \/ tail_asyncPipe \/ TailYield \/ TailCallback

SpecTail == InitTail /\ [][NextTail]_vars

\* ------------------------------------------------------------ pipeuniq
s_field == <<"f", "i", "e", "l", "d">>
s_pass_if == <<"p", "a", "s", "s", "_", "i", "f">>
PyBool(b) == [type |-> "bool", b |-> b]

\* a nested record, as a field's value
NestedDict == PyDict([k \in {s_x} |-> PyInt(1)])

\* the items the filter is fed: equal and different values at x, records
\* that differ only at y, records without x, a nested value at x
UniqItems == {[k \in {s_x} |-> PyInt(1)],
              [k \in {s_x, s_y} |-> PyInt(1)],
              [k \in {s_x} |-> PyInt(2)],
              [k \in {s_y} |-> PyInt(1)],
              [k \in {s_x} |-> NestedDict],
              [k \in {} |-> None]}

\* the pipeline uniq | uniq: the second filter reads the first one's output
Stages == {"first", "second"}

\* dict.get(key): the value, or None when the key is absent
dict_get(d, k) == IF k \in DOMAIN d THEN d[k] ELSE None

\* set membership and set.add hash the value: a dict is unhashable
Hashable(v) == v.type # "dict"

\* utils.get_pass(test=test): whether the bypass test holds
get_pass(test) == test.type = "bool" /\ test.b

\* utils.parse_conf(...).field: the configured field name
parsed_field(c) == c[s_field].s

\* conf and the pass_if keyword of a call of pipe_uniq
UniqConfs == {[k \in {s_field, s_pass_if} |->
                 IF k = s_field THEN PyStr(f) ELSE t] :
              f \in {s_x, s_y}, t \in {None, PyBool(TRUE)}}

InitUniq ==
    /\ InitModule
    /\ kind = "uniq"
    /\ input \in SeqUpTo(UniqItems, MaxLen)
    /\ conf \in UniqConfs
    /\ pos = [s \in Stages |-> 0]
    /\ seen = [s \in Stages |-> {}]
    /\ out = [s \in Stages |-> <<>>]
    /\ status = [s \in Stages |-> "idle"]
    /\ want = [s \in Stages |-> FALSE]
    /\ buf = <<>>

\* what a stage iterates over, as far as it has been produced
Upstream(s) == IF s = "first" THEN input ELSE out["first"]

\* the consumer of the pipeline calls next() on the second stage
UniqRequest ==
    /\ kind = "uniq"
    /\ status["second"] \in {"idle", "running"}
    /\ ~want["second"]
    /\ want' = [want EXCEPT !["second"] = TRUE]
    /\ status' = [status EXCEPT !["second"] = "running"]
    /\ UNCHANGED <<clock, SWITCH, DEFAULTS, kind, input, conf, pos, buf, seen,
                   out>>

\* the second stage's for loop calls next() on the first stage
UniqPull ==
    /\ kind = "uniq"
    /\ want["second"]
    /\ pos["second"] = Len(out["first"])
    /\ status["first"] \in {"idle", "running"}
    /\ ~want["first"]
    /\ want' = [want EXCEPT !["first"] = TRUE]
    /\ status' = [status EXCEPT !["first"] = "running"]
    /\ UNCHANGED <<clock, SWITCH, DEFAULTS, kind, input, conf, pos, buf, seen,
                   out>>

\* a filter that forgets a value when it drops a record with it: the third
\* record with a value is forwarded again
unique_items_forgetful(s) ==
    /\ want[s]
    /\ pos[s] < Len(Upstream(s))
    /\ LET item == Upstream(s)[pos[s] + 1]
           value == dict_get(item, parsed_field(conf))
       IN  /\ pos' = [pos EXCEPT ![s] = @ + 1]
           /\ IF ~Hashable(value)
              THEN /\ status' = [status EXCEPT ![s] = "error"]
                   /\ want' = [want EXCEPT ![s] = FALSE]
                   /\ UNCHANGED <<seen, out>>
              ELSE IF value \notin seen[s]
              THEN /\ seen' = [seen EXCEPT ![s] = @ \cup {value}]
                   /\ out' = [out EXCEPT ![s] = Append(@, item)]
                   /\ want' = [want EXCEPT ![s] = FALSE]
                   /\ UNCHANGED status
              ELSE /\ seen' = [seen EXCEPT ![s] = @ \ {value}]
                   /\ UNCHANGED <<out, status, want>>
    /\ UNCHANGED <<clock, SWITCH, DEFAULTS, kind, input, conf, buf>>

\* a filter that lets every record without the field through
\* (`if value is None or value not in seen`)
unique_items_forward_missing(s) ==
    /\ want[s]
    /\ pos[s] < Len(Upstream(s))
    /\ LET item == Upstream(s)[pos[s] + 1]
           value == dict_get(item, parsed_field(conf))
       IN  /\ pos' = [pos EXCEPT ![s] = @ + 1]
           /\ IF ~Hashable(value)
              THEN /\ status' = [status EXCEPT ![s] = "error"]
                   /\ want' = [want EXCEPT ![s] = FALSE]
                   /\ UNCHANGED <<seen, out>>
              ELSE IF value = None \/ value \notin seen[s]
              THEN /\ seen' = [seen EXCEPT ![s] = @ \cup {value}]
                   /\ out' = [out EXCEPT ![s] = Append(@, item)]
                   /\ want' = [want EXCEPT ![s] = FALSE]
                   /\ UNCHANGED status
              ELSE UNCHANGED <<seen, out, status, want>>
    /\ UNCHANGED <<clock, SWITCH, DEFAULTS, kind, input, conf, buf>>

\* a filter that takes the value out of the record (pop instead of get):
\* the record it reads, which its upstream still holds, loses the field
unique_items_pop(s) ==
    /\ want[s]
    /\ pos[s] < Len(Upstream(s))
    /\ LET item == Upstream(s)[pos[s] + 1]
           value == dict_get(item, parsed_field(conf))
           popped == [k \in DOMAIN item \ {parsed_field(conf)} |-> item[k]]
           held == IF s = "second"
                   THEN [out EXCEPT !["first"][pos[s] + 1] = popped] ELSE out
       IN  /\ pos' = [pos EXCEPT ![s] = @ + 1]
           /\ input' = IF s = "first"
                       THEN [input EXCEPT ![pos[s] + 1] = popped] ELSE input
           /\ IF ~Hashable(value)
              THEN /\ status' = [status EXCEPT ![s] = "error"]
                   /\ want' = [want EXCEPT ![s] = FALSE]
                   /\ out' = held
                   /\ UNCHANGED seen
              ELSE IF value \notin seen[s]
              THEN /\ seen' = [seen EXCEPT ![s] = @ \cup {value}]
                   /\ out' = [held EXCEPT ![s] = Append(@, popped)]
                   /\ want' = [want EXCEPT ![s] = FALSE]
                   /\ UNCHANGED status
              ELSE /\ out' = held
                   /\ UNCHANGED <<seen, status, want>>
    /\ UNCHANGED <<clock, SWITCH, DEFAULTS, kind, conf, buf>>

\* a filter that runs through its upstream without waiting for next(): the
\* records are consumed as soon as the upstream has them
unique_items_eager(s) ==
    /\ pos[s] < Len(Upstream(s))
    /\ status[s] # "error"
    /\ LET item == Upstream(s)[pos[s] + 1]
           value == dict_get(item, parsed_field(conf))
       IN  /\ pos' = [pos EXCEPT ![s] = @ + 1]
           /\ IF ~Hashable(value)
              THEN /\ status' = [status EXCEPT ![s] = "error"]
                   /\ want' = [want EXCEPT ![s] = FALSE]
                   /\ UNCHANGED <<seen, out>>
              ELSE IF value \notin seen[s]
              THEN /\ seen' = [seen EXCEPT ![s] = @ \cup {value}]
                   /\ out' = [out EXCEPT ![s] = Append(@, item)]
                   /\ want' = [want EXCEPT ![s] = FALSE]
                   /\ UNCHANGED status
              ELSE UNCHANGED <<seen, out, status, want>>
    /\ UNCHANGED <<clock, SWITCH, DEFAULTS, kind, input, conf, buf>>

\* unique_items, one turn of its for loop: the next upstream item is taken,
\* and yielded when its value at the field is not in seen
unique_items(s) ==
    /\ want[s]
    /\ pos[s] < Len(Upstream(s))
    /\ LET item == Upstream(s)[pos[s] + 1]
           value == dict_get(item, parsed_field(conf))
       IN  /\ pos' = [pos EXCEPT ![s] = @ + 1]
           /\ IF ~Hashable(value)
              THEN /\ status' = [status EXCEPT ![s] = "error"]
                   /\ want' = [want EXCEPT ![s] = FALSE]
                   /\ UNCHANGED <<seen, out>>
              ELSE IF value \notin seen[s]
              THEN /\ seen' = [seen EXCEPT ![s] = @ \cup {value}]
                   /\ out' = [out EXCEPT ![s] = Append(@, item)]
                   /\ want' = [want EXCEPT ![s] = FALSE]
                   /\ UNCHANGED status
              ELSE UNCHANGED <<seen, out, status, want>>
    /\ UNCHANGED <<clock, SWITCH, DEFAULTS, kind, input, conf, buf>>

\* _OUTPUT = _INPUT: the consumer's next() is served by the input itself
UniqBypass(s) ==
    /\ want[s]
    /\ pos[s] < Len(Upstream(s))
    /\ pos' = [pos EXCEPT ![s] = @ + 1]
    /\ out' = [out EXCEPT ![s] = Append(@, Upstream(s)[pos[s] + 1])]
    /\ want' = [want EXCEPT ![s] = FALSE]
    /\ UNCHANGED <<clock, SWITCH, DEFAULTS, kind, input, conf, buf, seen,
                   status>>

\* a pipe that filters whatever the bypass test says
pipe_uniq_always_filter(s) ==
    /\ kind = "uniq"
    /\ unique_items(s)

\* pipe_uniq: _OUTPUT = _INPUT if _pass else unique_items(_INPUT, field)
pipe_uniq(s) ==
    /\ kind = "uniq"
    /\ IF get_pass(conf[s_pass_if]) THEN UniqBypass(s) ELSE unique_items(s)

\* the for loop ends with the upstream: StopIteration, or the upstream's
\* exception passed on
UniqStop(s) ==
    /\ kind = "uniq"
    /\ want[s]
    /\ pos[s] = Len(Upstream(s))
    /\ s = "second" => status["first"] \in {"done", "error"}
    /\ status' = [status EXCEPT ![s] =
                    IF s = "second" /\ status["first"] = "error"
                    THEN "error" ELSE "done"]
    /\ want' = [want EXCEPT ![s] = FALSE]
    /\ UNCHANGED <<clock, SWITCH, DEFAULTS, kind, input, conf, pos, buf, seen,
                   out>>

NextUniq ==
    \/ Tick
    \/ UniqRequest
    \/ UniqPull
    \/ \E s \in Stages : pipe_uniq(s)
    \/ \E s \in Stages : UniqStop(s)

SpecUniq == InitUniq /\ [][NextUniq]_vars

\* ------------------------------------------------------------ calendar
\* datetime's proleptic Gregorian calendar, as the standard library computes it
IsLeap(y) == y % 4 = 0 /\ (y % 100 # 0 \/ y % 400 = 0)

DaysInMonth(y, m) ==
    IF m = 2 THEN (IF IsLeap(y) THEN 29 ELSE 28)
    ELSE IF m \in {4, 6, 9, 11} THEN 30 ELSE 31

DaysBeforeYear(y) ==
    (y - 1) * 365 + (y - 1) \div 4 - (y - 1) \div 100 + (y - 1) \div 400

RECURSIVE DaysBeforeMonth(_, _)
DaysBeforeMonth(y, m) ==
    IF m = 1 THEN 0 ELSE DaysBeforeMonth(y, m - 1) + DaysInMonth(y, m - 1)

ymd2ord(y, m, d) == DaysBeforeYear(y) + DaysBeforeMonth(y, m) + d

\* the years the model's dates fall in
Years == 2000..2040

ord2ymd(n) ==
    LET y == CHOOSE yy \in Years :
                 DaysBeforeYear(yy) < n /\ n <= DaysBeforeYear(yy + 1)
        r == n - DaysBeforeYear(y)
        m == CHOOSE mm \in 1..12 :
                 DaysBeforeMonth(y, mm) < r
                     /\ r <= DaysBeforeMonth(y, mm) + DaysInMonth(y, mm)
    IN  [year |-> y, month |-> m, day |-> r - DaysBeforeMonth(y, m)]

\* the calendar day of tick 0: 28 February 2016, so that the clock can
\* reach 29 February of a leap year
EpochOrdinal == ymd2ord(2016, 2, 28)

\* the day number (date.toordinal()) of a time in ticks
OrdinalOf(t) == EpochOrdinal + t \div TicksPerDay

\* datetime.replace(year=y): same month, day and time of day in year y;
\* ValueError when that year has no such day
datetime_replace_year(dt, y) ==
    LET d == ord2ymd(OrdinalOf(dt.t))
    IN  IF d.day > DaysInMonth(y, d.month) THEN Raise("ValueError")
        ELSE PyDatetime(((ymd2ord(y, d.month, d.day) - EpochOrdinal) * TicksPerDay)
                          + (dt.t % TicksPerDay))

\* ------------------------------------------------------------ str methods
UpperCase == <<"A", "B", "C", "D", "E", "F", "G", "H", "I", "J", "K", "L", "M",
               "N", "O", "P", "Q", "R", "S", "T", "U", "V", "W", "X", "Y", "Z">>
LowerCase == <<"a", "b", "c", "d", "e", "f", "g", "h", "i", "j", "k", "l", "m",
               "n", "o", "p", "q", "r", "s", "t", "u", "v", "w", "x", "y", "z">>

lower_char(c) ==
    IF \E i \in 1..Len(UpperCase) : UpperCase[i] = c
    THEN LowerCase[CHOOSE i \in 1..Len(UpperCase) : UpperCase[i] = c]
    ELSE c

\* the expression used as it is written, not lower-cased
lower_unchanged(s) == s

\* str.lower()
lower(s) == [i \in 1..Len(s) |-> lower_char(s[i])]

\* str.endswith(suffix)
endswith(s, suffix) ==
    /\ Len(s) >= Len(suffix)
    /\ SubSeq(s, Len(s) - Len(suffix) + 1, Len(s)) = suffix

\* s.split(' ')[0]: what precedes the first blank, or all of s
split_first(s) ==
    IF \E i \in 1..Len(s) : s[i] = " "
    THEN SubSeq(s, 1, (CHOOSE i \in 1..Len(s) :
                          s[i] = " " /\ \A j \in 1..(i - 1) : s[j] # " ") - 1)
    ELSE s

\* ------------------------------------------------------------ pipedatebuilder
s_DATE == <<"D", "A", "T", "E">>
s_day == <<" ", "d", "a", "y">>
s_days == <<" ", "d", "a", "y", "s">>
s_year == <<" ", "y", "e", "a", "r">>
s_years == <<" ", "y", "e", "a", "r", "s">>

\* a configuration entry: a literal, or a reference into the current item
ConfValue(v) == [type |-> "value", value |-> v]
ConfSubkey(k) == [type |-> "subkey", subkey |-> k]

\* util.get_value(field, item): a literal is passed through; a reference is
\* looked up in the item and, when absent there, is used as a literal itself
get_value(field, item) ==
    IF field.type = "value" THEN field.value
    ELSE IF field.subkey \in DOMAIN item THEN item[field.subkey]
    ELSE PyStr(field.subkey)

\* a non-empty tuple (struct_time) is true; None is not
Truthy(v) == v.type # "NoneType"

RECURSIVE split(_, _)
\* str.split(sep): the fields between the occurrences of sep
split(s, sep) ==
    IF \E i \in 1..Len(s) : s[i] = sep
    THEN LET i == CHOOSE i \in 1..Len(s) :
                      s[i] = sep /\ \A j \in 1..(i - 1) : s[j] # sep
         IN  <<SubSeq(s, 1, i - 1)>> \o split(SubSeq(s, i + 1, Len(s)), sep)
    ELSE <<s>>

\* util.ALTERNATIVE_DATE_FORMATS: fixed formats, here "%m/%d/%Y" and
\* "%m-%d-%Y", each written as the separator it puts between its fields
ALTERNATIVE_DATE_FORMATS == <<"/", "-">>

\* datetime.strptime(date, df): a value that is not a str is a TypeError, a
\* str that does not match the format is a ValueError (years of the model's
\* calendar only)
strptime(date, df) ==
    IF date.type # "str" THEN Raise("TypeError")
    ELSE LET f == split(date.s, df)
         IN  IF Len(f) # 3 THEN Raise("ValueError")
             ELSE IF \E i \in 1..3 : ~AllDigits(f[i]) \/ Len(f[i]) > 4
             THEN Raise("ValueError")
             ELSE IF atoi(f[3]) \notin Years \/ atoi(f[1]) \notin 1..12
             THEN Raise("ValueError")
             ELSE IF atoi(f[2]) \notin 1..DaysInMonth(atoi(f[3]), atoi(f[1]))
             THEN Raise("ValueError")
             ELSE PyDatetime((ymd2ord(atoi(f[3]), atoi(f[1]), atoi(f[2]))
                                - EpochOrdinal) * TicksPerDay)

RECURSIVE strptime_first(_, _)
\* the for loop over the formats: the first format that parses wins (break),
\* a format that raises is passed over, and when none parses date is kept
strptime_first(date, formats) ==
    IF formats = <<>> THEN date
    ELSE LET parsed == strptime(date, Head(formats))
         IN  IF IsException(parsed) THEN strptime_first(date, Tail(formats))
             ELSE timetuple(parsed)

\* the fallback of lines 45-53 over util.ALTERNATIVE_DATE_FORMATS
strptime_alternatives(date) == strptime_first(date, ALTERNATIVE_DATE_FORMATS)

\* a lookup that falls back to today's entry for a keyword it does not have
SWITCH_get_or_today(sw, date) ==
    IF date \in DOMAIN sw THEN sw[date] ELSE sw[s_today]

\* SWITCH.get(date): the entry of the keyword, or None
SWITCH_get(sw, date) == dict_get(sw, date)

\* the body of pipe_datebuilder's loop: the date built for one item when the
\* clock reads now and the keyword table is sw
datebuilder_date(item, c, sw, now) ==
    LET raw == get_value(c[s_DATE], item)
        date == lower(raw.s)
        count == int_str(split_first(date))
        today == PyDatetime(now)
        built ==
            IF endswith(date, s_day) \/ endswith(date, s_days)
            THEN IF IsException(count) THEN count
                 ELSE timetuple(datetime_add(today, timedelta_days(count.n)))
            ELSE IF endswith(date, s_year) \/ endswith(date, s_years)
            THEN IF IsException(count) THEN count
                 ELSE LET moved == datetime_replace_year(
                                       today, ord2ymd(OrdinalOf(now)).year + count.n)
                      IN  IF IsException(moved) THEN moved ELSE timetuple(moved)
            ELSE timetuple(SWITCH_get(sw, date))
    IN  IF raw.type # "str" THEN Raise("AttributeError")
        ELSE IF IsException(built) THEN built
        ELSE IF ~Truthy(built) THEN strptime_alternatives(built)
        ELSE built

\* str(k) of an integer
RECURSIVE str_nat(_)
str_nat(n) ==
    IF n < 10 THEN <<Digits[n + 1]>>
    ELSE str_nat(n \div 10) \o <<Digits[(n % 10) + 1]>>
str_int(k) == IF k < 0 THEN <<"-">> \o str_nat(0 - k) ELSE str_nat(k)

\* the date expressions of the model: "<k> days" for the small offsets, and
\* the singular, upper-case, mixed-case and two-digit forms
Offsets == (0 - MaxOffset)..MaxOffset
s_DAY == <<" ", "D", "A", "Y">>
s_Days == <<" ", "D", "a", "y", "s">>
DayTexts == {str_int(k) \o s_days : k \in Offsets}
              \cup {str_int(1) \o s_day, str_int(3) \o s_DAY, str_int(12) \o s_Days}
YearTexts == {<<"1">> \o s_year, <<"4">> \o s_years}
s_Today == <<"T", "o", "d", "a", "y">>
s_bogus == <<"b", "o", "g", "u", "s">>
KeywordTexts == {s_today, s_tomorrow, s_yesterday, s_now, s_Today}
OtherTexts == {s_bogus, <<"t", "o", " ", "d", "a", "y", "!">>, <<"x">> \o s_day}
\* a text that is no keyword and has no suffix, but is a date in a format
AltTexts == {<<"3", "/", "1", "/", "2", "0", "1", "6">>}
DateExprs == DayTexts \cup YearTexts \cup KeywordTexts \cup OtherTexts
               \cup AltTexts

DateItems == {[k \in {s_x} |-> PyStr(e)] : e \in DateExprs}
DateConfs == {[k \in {s_DATE} |-> d] :
                d \in {ConfSubkey(s_x), ConfValue(PyStr(<<"1">> \o s_day))}}

InitDate ==
    /\ InitModule
    /\ kind = "date"
    /\ input \in SeqUpTo(DateItems, MaxDates)
    /\ conf \in DateConfs
    /\ pos = [s \in {"sync"} |-> 0]
    /\ out = [s \in {"sync"} |-> <<>>]
    /\ status = [s \in {"sync"} |-> "idle"]
    /\ want = [s \in {"sync"} |-> FALSE]
    /\ seen = <<>>
    /\ buf = <<>>

\* the consumer calls next() on the generator
DateRequest ==
    /\ kind = "date"
    /\ status["sync"] \in {"idle", "running"}
    /\ ~want["sync"]
    /\ want' = [want EXCEPT !["sync"] = TRUE]
    /\ status' = [status EXCEPT !["sync"] = "running"]
    /\ UNCHANGED <<clock, SWITCH, DEFAULTS, kind, input, conf, pos, buf, seen,
                   out>>

\* a source that builds the date of the first item and yields it forever,
\* never moving on in its input (the model stops it after MaxDates + 1)
pipe_datebuilder_forever ==
    /\ kind = "date"
    /\ want["sync"]
    /\ pos["sync"] < Len(input)
    /\ Len(out["sync"]) <= MaxDates
    /\ LET date == datebuilder_date(input[pos["sync"] + 1], conf, SWITCH, clock)
       IN  /\ want' = [want EXCEPT !["sync"] = FALSE]
           /\ IF IsException(date)
              THEN /\ status' = [status EXCEPT !["sync"] = "error"]
                   /\ pos' = [pos EXCEPT !["sync"] = @ + 1]
                   /\ UNCHANGED out
              ELSE /\ out' = [out EXCEPT !["sync"] = Append(@, date)]
                   /\ UNCHANGED <<status, pos>>
    /\ UNCHANGED <<clock, SWITCH, DEFAULTS, kind, input, conf, buf, seen>>

\* pipe_datebuilder, one turn of `for item in _INPUT`: the date of the next
\* item is built and yielded, or the exception raised while building it
\* ends the generator
pipe_datebuilder ==
    /\ kind = "date"
    /\ want["sync"]
    /\ pos["sync"] < Len(input)
    /\ LET date == datebuilder_date(input[pos["sync"] + 1], conf, SWITCH, clock)
       IN  /\ pos' = [pos EXCEPT !["sync"] = @ + 1]
           /\ want' = [want EXCEPT !["sync"] = FALSE]
           /\ IF IsException(date)
              THEN /\ status' = [status EXCEPT !["sync"] = "error"]
                   /\ UNCHANGED out
              ELSE /\ out' = [out EXCEPT !["sync"] = Append(@, date)]
                   /\ UNCHANGED status
    /\ UNCHANGED <<clock, SWITCH, DEFAULTS, kind, input, conf, buf, seen>>

\* the for loop ends with the input: the generator is exhausted
DateStop ==
    /\ kind = "date"
    /\ want["sync"]
    /\ pos["sync"] = Len(input)
    /\ status' = [status EXCEPT !["sync"] = "done"]
    /\ want' = [want EXCEPT !["sync"] = FALSE]
    /\ UNCHANGED <<clock, SWITCH, DEFAULTS, kind, input, conf, pos, buf, seen,
                   out>>

NextDate == Tick \/ DateRequest \/ pipe_datebuilder \/ DateStop

SpecDate == InitDate /\ [][NextDate]_vars

\* ------------------------------------------------------------ piperssitembuilder
s_title == <<"t", "i", "t", "l", "e">>
s_guid == <<"g", "u", "i", "d">>
s_mediaThumbURL == <<"m", "e", "d", "i", "a", "T", "h", "u", "m", "b", "U", "R", "L">>
s_mediaThumbHeight == <<"m", "e", "d", "i", "a", "T", "h", "u", "m", "b", "H", "e", "i", "g", "h", "t">>
s_mediaThumbWidth == <<"m", "e", "d", "i", "a", "T", "h", "u", "m", "b", "W", "i", "d", "t", "h">>
s_mediaContentType == <<"m", "e", "d", "i", "a", "C", "o", "n", "t", "e", "n", "t", "T", "y", "p", "e">>
s_mediaContentURL == <<"m", "e", "d", "i", "a", "C", "o", "n", "t", "e", "n", "t", "U", "R", "L">>
s_mediaContentHeight == <<"m", "e", "d", "i", "a", "C", "o", "n", "t", "e", "n", "t", "H", "e", "i", "g", "h", "t">>
s_mediaContentWidth == <<"m", "e", "d", "i", "a", "C", "o", "n", "t", "e", "n", "t", "W", "i", "d", "t", "h">>
s_media_thumbnail == <<"m", "e", "d", "i", "a", ":", "t", "h", "u", "m", "b", "n", "a", "i", "l">>
s_media_content == <<"m", "e", "d", "i", "a", ":", "c", "o", "n", "t", "e", "n", "t">>
s_url == <<"u", "r", "l">>
s_height == <<"h", "e", "i", "g", "h", "t">>
s_width == <<"w", "i", "d", "t", "h">>
s_type == <<"t", "y", "p", "e">>
s_dot == <<".">>

\* yahoo style rss items (dots are for sub-levels)
RSS ==
    [k \in {s_title, s_guid, s_mediaThumbURL, s_mediaThumbHeight,
            s_mediaThumbWidth, s_mediaContentType, s_mediaContentURL,
            s_mediaContentHeight, s_mediaContentWidth} |->
        IF k = s_title THEN <<"y", ":">> \o s_title
        ELSE IF k = s_guid THEN <<"y", ":", "i", "d">>
        ELSE IF k = s_mediaThumbURL THEN s_media_thumbnail \o s_dot \o s_url
        ELSE IF k = s_mediaThumbHeight THEN s_media_thumbnail \o s_dot \o s_height
        ELSE IF k = s_mediaThumbWidth THEN s_media_thumbnail \o s_dot \o s_width
        ELSE IF k = s_mediaContentType THEN s_media_content \o s_dot \o s_type
        ELSE IF k = s_mediaContentURL THEN s_media_content \o s_dot \o s_url
        ELSE IF k = s_mediaContentHeight THEN s_media_content \o s_dot \o s_height
        ELSE s_media_content \o s_dot \o s_width]

\* a lookup that leaves every key as it is configured
RSS_get_unrenamed(k) == k

\* RSS.get(k, k)
RSS_get(k) == IF k \in DOMAIN RSS THEN RSS[k] ELSE k

RECURSIVE split_dots(_)
\* key.split('.'): the segments of a dotted path
split_dots(s) ==
    IF \E i \in 1..Len(s) : s[i] = "."
    THEN LET i == CHOOSE j \in 1..Len(s) :
                      s[j] = "." /\ \A h \in 1..(j - 1) : s[h] # "."
         IN  <<SubSeq(s, 1, i - 1)>> \o split_dots(SubSeq(s, i + 1, Len(s)))
    ELSE <<s>>

RECURSIVE DotDict_build(_)
\* the nested dict that the assignments (path, value) of P build
DotDict_build(P) ==
    [top \in {Head(p[1]) : p \in P} |->
        IF \E p \in P : p[1] = <<top>>
        THEN (CHOOSE p \in P : p[1] = <<top>>)[2]
        ELSE PyDict(DotDict_build({<<Tail(p[1]), p[2]>> :
                                     p \in {q \in P : Head(q[1]) = top}}))]

\* DotDict(pairs): every (key, value) is set at the key's dotted path
DotDict(pairs) == DotDict_build({<<split_dots(p[1]), p[2]>> : p \in pairs})

RECURSIVE DotDict_descend(_, _, _)
DotDict_descend(d, path, default) ==
    IF Head(path) \notin DOMAIN d THEN default
    ELSE IF Len(path) = 1 THEN d[Head(path)]
    ELSE IF d[Head(path)].type # "dict" THEN default
    ELSE DotDict_descend(d[Head(path)].d, Tail(path), default)

\* DotDict.get(key, default): the value at the dotted path, or the default
DotDict_get(d, key, default) ==
    IF key.type # "str" THEN default
    ELSE DotDict_descend(d, split_dots(key.s), default)

\* a parser that remaps every item, whatever skip says
rss_parser_always_remap(item, objconf, skip, feed) ==
    <<DotDict({<<RSS_get(k), DotDict_get(item, objconf[k], objconf[k])>> :
                 k \in DOMAIN objconf}), skip>>

\* parser(item, objconf, skip, **kwargs): returns (feed, skip)
rss_parser(item, objconf, skip, feed) ==
    IF skip
    THEN <<feed, skip>>
    ELSE <<DotDict({<<RSS_get(k), DotDict_get(item, objconf[k], objconf[k])>> :
                      k \in DOMAIN objconf}), skip>>

\* pipe(*args, **kwargs): return parser(*args, **kwargs)
rss_pipe(item, objconf, skip, feed) == rss_parser(item, objconf, skip, feed)

\* asyncPipe(*args, **kwargs): return parser(*args, **kwargs)
rss_asyncPipe(item, objconf, skip, feed) == rss_parser(item, objconf, skip, feed)

\* the processor wrapper merges DEFAULTS under the caller's configuration
merge_defaults(defaults, c) ==
    [k \in (DOMAIN defaults \cup (DOMAIN c \ {s_pass_if})) |->
        IF k \in DOMAIN c THEN c[k] ELSE defaults[k]]

\* the wrapper's skip test for one item: pass_if names a field, and an item
\* that has the field is passed through
get_skip(item, test) == test.type = "str" /\ test.s \in DOMAIN item

s_a1 == <<"a", "1">>
RssItems == {[k \in {} |-> None],
             [k \in {s_x} |-> PyStr(s_a1)],
             [k \in {s_x} |-> NestedDict]}

\* conf and the pass_if keyword of a call: each key is absent, names a field
\* (or a path) of the item, or holds a literal
RssConfs ==
    {[k \in (G \cup T \cup D \cup {s_pass_if}) |->
        IF k = s_pass_if THEN t
        ELSE IF k = s_guid THEN PyStr(s_x)
        ELSE IF k = s_mediaThumbURL THEN PyStr(th)
        ELSE PyStr(s_a1)] :
     G \in {{}, {s_guid}}, T \in {{}, {s_mediaThumbURL}},
     D \in {{}, {s_pubDate}}, th \in {s_x \o s_dot \o s_x, s_a1},
     t \in {None, PyStr(s_x)}}

InitRss ==
    /\ InitModule
    /\ kind = "rss"
    /\ input \in SeqUpTo(RssItems, MaxLen)
    /\ conf \in RssConfs
    /\ pos = [f \in Forms |-> 0]
    /\ buf = [f \in Forms |-> <<>>]
    /\ out = [f \in Forms |-> <<>>]
    /\ status = [f \in Forms |-> "idle"]
    /\ seen = <<>>
    /\ want = <<>>

\* the synchronous wrapper: one next() of the consumer processes one item
\* and hands over the record that pipe returns for it
RssNext ==
    /\ kind = "rss"
    /\ status["sync"] \in {"idle", "running"}
    /\ pos["sync"] < Len(input)
    /\ LET item == input[pos["sync"] + 1]
           r == rss_pipe(item, merge_defaults(DEFAULTS, conf),
                         get_skip(item, conf[s_pass_if]), item)
       IN  out' = [out EXCEPT !["sync"] = Append(@, r[1])]
    /\ pos' = [pos EXCEPT !["sync"] = @ + 1]
    /\ status' = [status EXCEPT !["sync"] = "running"]
    /\ UNCHANGED <<clock, SWITCH, DEFAULTS, kind, input, conf, buf, seen, want>>

\* the synchronous wrapper is exhausted with its input
RssStop ==
    /\ kind = "rss"
    /\ status["sync"] \in {"idle", "running"}
    /\ pos["sync"] = Len(input)
    /\ status' = [status EXCEPT !["sync"] = "done"]
    /\ UNCHANGED <<clock, SWITCH, DEFAULTS, kind, input, conf, pos, buf, seen,
                   out, want>>

\* the asynchronous wrapper: one scheduled step processes one item and
\* collects the record that asyncPipe returns for it
RssStep ==
    /\ kind = "rss"
    /\ status["async"] \in {"idle", "running"}
    /\ pos["async"] < Len(input)
    /\ LET item == input[pos["async"] + 1]
           r == rss_asyncPipe(item, merge_defaults(DEFAULTS, conf),
                              get_skip(item, conf[s_pass_if]), item)
       IN  buf' = [buf EXCEPT !["async"] = Append(@, r[1])]
    /\ pos' = [pos EXCEPT !["async"] = @ + 1]
    /\ status' = [status EXCEPT !["async"] = "running"]
    /\ UNCHANGED <<clock, SWITCH, DEFAULTS, kind, input, conf, seen, out, want>>

\* the asynchronous wrapper fires its Deferred with the collected records
RssCallback ==
    /\ kind = "rss"
    /\ status["async"] \in {"idle", "running"}
    /\ pos["async"] = Len(input)
    /\ out' = [out EXCEPT !["async"] = buf["async"]]
    /\ status' = [status EXCEPT !["async"] = "done"]
    /\ UNCHANGED <<clock, SWITCH, DEFAULTS, kind, input, conf, pos, buf, seen,
                   want>>

NextRss == Tick \/ RssNext \/ RssStop \/ RssStep \/ RssCallback

SpecRss == InitRss /\ [][NextRss]_vars

\* the two pipes that have a synchronous and an asynchronous entry point
InitDual == InitTail \/ InitRss
NextDual == NextTail \/ NextRss
SpecDual == InitDual /\ [][NextDual]_vars

\* the two generators: the uniqueness filter and the date builder
InitLazy == InitUniq \/ InitDate
NextLazy == NextUniq \/ NextDate
SpecLazy == InitLazy /\ [][NextLazy]_vars

\* the three pipes that are handed records: tail, uniq, RSS item builder
InitFrame == InitTail \/ InitUniq \/ InitRss
NextFrame == NextTail \/ NextUniq \/ NextRss
SpecFrame == InitFrame /\ [][NextFrame]_vars

Init == InitTail \/ InitUniq \/ InitDate \/ InitRss
Next == NextTail \/ NextUniq \/ NextDate \/ NextRss
Spec == Init /\ [][Next]_vars

\* ============================================================ properties
Min(a, b) == IF a < b THEN a ELSE b
IsPrefix(s, t) == Len(s) <= Len(t) /\ s = SubSeq(t, 1, Len(s))
Finished(f) == status[f] \in {"done", "error"}

RECURSIVE Pick(_, _)
\* the subsequence of s at the positions I, in the order of s
Pick(s, I) ==
    IF s = <<>> THEN <<>>
    ELSE LET n == Len(s)
             front == Pick(SubSeq(s, 1, n - 1), I \ {n})
         IN  IF n \in I THEN Append(front, s[n]) ELSE front

\* ------------------------------------------------------------ C1
\* C1: for every finite input stream and every configuration, the
\* synchronous and the asynchronous entry point of the tail pipe and of the
\* RSS item builder end the same way with the same output sequence, and what
\* the synchronous form has handed over so far is a prefix of the
\* asynchronous result.
C1_SyncAsyncEquivalence ==
    kind \in {"tail", "rss"} =>
        /\ (Finished("sync") /\ Finished("async")) =>
              /\ status["sync"] = status["async"]
              /\ out["sync"] = out["async"]
        /\ status["async"] = "done" => IsPrefix(out["sync"], out["async"])

C1_Witness ==
    /\ kind = "tail"
    /\ status["sync"] = "done"
    /\ status["async"] = "done"
    /\ Len(input) = 3
    /\ Len(out["async"]) = 2
    /\ out["sync"] = out["async"]

\* ------------------------------------------------------------ C2
\* the count N a configuration stands for: an integer, or the text "2"
CountOf(c) ==
    IF c[s_count].type = "int" THEN c[s_count].n
    ELSE IF c[s_count].type = "str" /\ c[s_count].s = <<"2">> THEN 2
    ELSE 0 - 1

LastN(s, n) == SubSeq(s, Len(s) - Min(n, Len(s)) + 1, Len(s))

\* C2: for every finite input stream of length L and every count N >= 0 the
\* tail pipe ends without an error and its output is exactly the last
\* min(N, L) input records in their original order (N = 0: empty; N >= L:
\* the whole input).
C2_TrailingWindow ==
    (kind = "tail" /\ CountOf(conf) >= 0) =>
        \A f \in Forms :
            /\ status[f] # "error"
            /\ status[f] = "flushing" => buf[f] = LastN(input, CountOf(conf))
            /\ status[f] = "done" => out[f] = LastN(input, CountOf(conf))
            /\ CountOf(conf) = 0 => out[f] = <<>>
            /\ (status[f] = "done" /\ CountOf(conf) >= Len(input)) => out[f] = input

C2_Witness ==
    /\ kind = "tail"
    /\ status["sync"] = "done"
    /\ CountOf(conf) = 2
    /\ Len(input) = 3
    /\ input[1] # input[3]
    /\ out["sync"] = <<input[2], input[3]>>

\* ------------------------------------------------------------ C3
Bypassed == conf[s_pass_if].type = "bool"
FieldOf(c) == c[s_field].s

\* a record's value for a field; a record without the field has the value None
ValueAt(r, field) == IF field \in DOMAIN r THEN r[field] ELSE None
IsNested(v) == v.type = "dict"
SameValue(v, w) == v.type = w.type /\ v = w

\* the positions of s whose value for the field no earlier position has
FirstIdx(s, field) ==
    {i \in 1..Len(s) :
        \A j \in 1..(i - 1) : ~SameValue(ValueAt(s[j], field), ValueAt(s[i], field))}

FirstOccurrences(s, field) == Pick(s, FirstIdx(s, field))

\* C3 as stated: for every input stream and field the filter forwards a
\* record if and only if no earlier record had an equal value for the field,
\* and never fails: its output is the subsequence of first occurrences of
\* the records consumed so far.
C3_Claim ==
    (kind = "uniq" /\ ~Bypassed) =>
        /\ status["first"] # "error"
        /\ out["first"] =
              FirstOccurrences(SubSeq(input, 1, pos["first"]), FieldOf(conf))

\* C3 as amended: as long as the values at the field are hashable (scalars,
\* or absent) the output is the subsequence of first occurrences of the
\* records consumed, no two output records have equal values, and the
\* filter fails exactly at the first record whose value at the field is a
\* nested record, which it does not forward.
C3_FirstOccurrences ==
    (kind = "uniq" /\ ~Bypassed) =>
        LET p == pos["first"]
            failed == status["first"] = "error"
            good == SubSeq(input, 1, IF failed THEN p - 1 ELSE p)
            o == out["first"]
        IN  /\ o = FirstOccurrences(good, FieldOf(conf))
            /\ \A i, j \in 1..Len(o) :
                  i # j => ~SameValue(ValueAt(o[i], FieldOf(conf)),
                                      ValueAt(o[j], FieldOf(conf)))
            /\ \A i \in 1..Len(good) : ~IsNested(ValueAt(good[i], FieldOf(conf)))
            /\ failed <=> (p > 0 /\ IsNested(ValueAt(input[p], FieldOf(conf))))

C3_Witness ==
    /\ kind = "uniq"
    /\ ~Bypassed
    /\ FieldOf(conf) = s_x
    /\ status["first"] = "done"
    /\ Len(input) = 3
    /\ input[1] # input[2]
    /\ out["first"] = <<input[1], input[3]>>

\* ------------------------------------------------------------ C4
\* C4: the uniqueness filter applied (same field) to its own output returns
\* that output unchanged: the second filter of the pipeline forwards every
\* record it reads, and ends with the first filter's output.
C4_Idempotent ==
    kind = "uniq" =>
        /\ out["second"] = SubSeq(out["first"], 1, pos["second"])
        /\ status["second"] = "done" => out["second"] = out["first"]

C4_Witness ==
    /\ kind = "uniq"
    /\ ~Bypassed
    /\ status["second"] = "done"
    /\ Len(input) = 3
    /\ Len(out["first"]) = 2
    /\ out["second"] = out["first"]

\* ------------------------------------------------------------ C5
\* C5: when the bypass test is true no filtering is done: the output is the
\* input itself, the same records in the same order, duplicates and nested
\* values included, and the pipe does not fail.
C5_Bypass ==
    (kind = "uniq" /\ Bypassed) =>
        /\ out["first"] = SubSeq(input, 1, pos["first"])
        /\ status["first"] # "error"
        /\ status["first"] = "done" => out["first"] = input

C5_Witness ==
    /\ kind = "uniq"
    /\ Bypassed
    /\ status["first"] = "done"
    /\ Len(input) = 3
    /\ input[1] = input[2]
    /\ IsNested(ValueAt(input[3], FieldOf(conf)))
    /\ out["first"] = input

\* ------------------------------------------------------------ C6
\* the date expression a record resolves to under the configuration
ExprOf(item) == get_value(conf[s_DATE], item).s

\* this step consumes one more record of the date builder's input
Resolves == kind = "date" /\ pos'["sync"] = pos["sync"] + 1

\* the record consumed by this step
Resolved == input[pos'["sync"]]

\* the date yielded by this step
Yielded == out'["sync"][Len(out'["sync"])]

\* "<k> day" and "<k> days" in any letter case written in the model
DayWords == {s_day, s_days, s_DAY, s_Days,
             <<" ", "D", "a", "y">>, <<" ", "D", "A", "Y", "S">>}
DayForms(k) == {str_int(k) \o w : w \in DayWords}
ClaimOffsets == (0 - MaxOffset - 2)..(MaxOffset + 12)

\* C6: when a record whose date expression is "<k> day" or "<k> days" (any
\* letter case) is resolved, one date is yielded for it, and it is the date
\* k calendar days after the current date at that moment.
C6_DaysAfterToday ==
    [][\A k \in ClaimOffsets :
          (Resolves /\ ExprOf(Resolved) \in DayForms(k)) =>
              /\ status'["sync"] # "error"
              /\ Len(out'["sync"]) = Len(out["sync"]) + 1
              /\ Yielded.type = "struct_time"
              /\ OrdinalOf(Yielded.tt) = OrdinalOf(clock) + k]_vars

C6_Witness ==
    /\ kind = "date"
    /\ Len(out["sync"]) >= 1
    /\ ExprOf(input[1]) = str_int(12) \o s_Days
    /\ OrdinalOf(out["sync"][1].tt) = EpochOrdinal + 13

\* ------------------------------------------------------------ C7
KeywordOffsets == {<<s_yesterday, 0 - 1>>, <<s_today, 0>>, <<s_tomorrow, 1>>}

\* C7 as stated: when a record whose date expression is "yesterday", "today"
\* or "tomorrow" is resolved, the date yielded is -1, 0 or +1 days from the
\* current date at that moment, however long ago the module was loaded.
C7_Claim ==
    [][\A kw \in KeywordOffsets :
          (Resolves /\ ExprOf(Resolved) = kw[1]) =>
              /\ status'["sync"] # "error"
              /\ Len(out'["sync"]) = Len(out["sync"]) + 1
              /\ Yielded.type = "struct_time"
              /\ OrdinalOf(Yielded.tt) = OrdinalOf(clock) + kw[2]]_vars

\* ------------------------------------------------------------ C8
\* C8 as stated: each of the keywords today, tomorrow, yesterday and now is
\* resolved to a date that is yielded for the record; none ends in an error.
C8_Claim ==
    (/\ kind = "date"
     /\ pos["sync"] >= 1
     /\ ExprOf(input[pos["sync"]]) \in {s_today, s_tomorrow, s_yesterday, s_now}) =>
        /\ status["sync"] # "error"
        /\ Len(out["sync"]) = pos["sync"]
        /\ out["sync"][pos["sync"]].type = "struct_time"

\* ------------------------------------------------------------ C9
\* expressions with no day/year suffix, in no keyword table, in no date format
UnrecognisedTexts == {s_bogus, <<"t", "o", " ", "d", "a", "y", "!">>}

\* C9: a record whose date expression is recognised by nothing ends the date
\* builder with an error; no date is yielded for it, so that every date in
\* the output belongs to a record with another expression.
C9_UnrecognisedIsError ==
    kind = "date" =>
        /\ (pos["sync"] >= 1 /\ ExprOf(input[pos["sync"]]) \in UnrecognisedTexts) =>
              /\ status["sync"] = "error"
              /\ Len(out["sync"]) = pos["sync"] - 1
        /\ Len(out["sync"]) <= pos["sync"]
        /\ \A i \in 1..Len(out["sync"]) : ExprOf(input[i]) \notin UnrecognisedTexts

C9_Witness ==
    /\ kind = "date"
    /\ pos["sync"] = 2
    /\ ExprOf(input[2]) = s_bogus
    /\ status["sync"] = "error"
    /\ Len(out["sync"]) = 1

EntriesOf(c) ==
    [k \in ((DOMAIN c \ {s_pass_if}) \cup {s_pubDate}) |->
        IF k \in DOMAIN c THEN c[k] ELSE DEFAULTS[s_pubDate]]

\* whether the wrapper passes the item through instead of remapping it
Skipped(item) == conf[s_pass_if].type = "str" /\ conf[s_pass_if].s \in DOMAIN item

\* the path in the output record that a configuration key is written to
TargetOf(k) ==
    IF k = s_guid THEN <<(<<"y", ":", "i", "d">>)>>
    ELSE IF k = s_mediaThumbURL THEN <<s_media_thumbnail, s_url>>
    ELSE <<k>>

\* whether a record has a value at a path, and the value
RECURSIVE HasAt(_, _)
HasAt(r, path) ==
    /\ Head(path) \in DOMAIN r
    /\ Len(path) > 1 =>
          /\ r[Head(path)].type = "dict"
          /\ HasAt(r[Head(path)].d, Tail(path))
RECURSIVE At(_, _)
At(r, path) ==
    IF Len(path) = 1 THEN r[Head(path)] ELSE At(r[Head(path)].d, Tail(path))

\* the paths the configuration values of the model name
PathOf(v) ==
    IF v.type # "str" THEN <<>>
    ELSE IF v.s = s_x \o s_dot \o s_x THEN <<s_x, s_x>>
    ELSE <<v.s>>

\* the value an entry (k, v) gives: the item's value at path v, else v itself
ValueFor(item, v) ==
    IF PathOf(v) # <<>> /\ HasAt(item, PathOf(v)) THEN At(item, PathOf(v)) ELSE v

\* the same entries with the values written out as literals
Literals(item, c) == [k \in DOMAIN EntriesOf(c) |-> ValueFor(item, EntriesOf(c)[k])]

\* C11: every record the RSS item builder has remapped holds, for every
\* configuration entry (k, v), at the renamed (and nested) target of k the
\* item's value at path v when the item has it and v itself otherwise, and
\* nothing else; it equals, pubDate included, the record built from the
\* literal values with no input record.
C11_Remap ==
    kind = "rss" =>
        \A i \in 1..Len(out["sync"]) :
            ~Skipped(input[i]) =>
                LET o == out["sync"][i]
                    e == EntriesOf(conf)
                IN  /\ \A k \in DOMAIN e :
                          /\ HasAt(o, TargetOf(k))
                          /\ At(o, TargetOf(k)) = ValueFor(input[i], e[k])
                    /\ DOMAIN o = {Head(TargetOf(k)) : k \in DOMAIN e}
                    /\ o = rss_pipe(<<>>, Literals(input[i], conf), FALSE, <<>>)[1]

C11_Witness ==
    /\ kind = "rss"
    /\ Len(out["sync"]) >= 1
    /\ ~Skipped(input[1])
    /\ s_x \in DOMAIN input[1]
    /\ {s_guid, s_mediaThumbURL} \subseteq DOMAIN conf
    /\ s_pubDate \notin DOMAIN conf
    /\ conf[s_mediaThumbURL].s = s_a1
    /\ out["sync"][1][<<"y", ":", "i", "d">>] = input[1][s_x]
    /\ out["sync"][1][s_media_thumbnail].d[s_url] = PyStr(s_a1)

\* ------------------------------------------------------------ C12
\* the synchronous builder remaps (does not pass through) one more item
Builds ==
    /\ kind = "rss"
    /\ pos'["sync"] = pos["sync"] + 1
    /\ ~Skipped(input[pos'["sync"]])
Built == out'["sync"][Len(out'["sync"])]

\* C12: when the configuration sets no pubDate, the record the RSS item
\* builder produces carries as pubDate the timestamp of the moment the
\* record is built; when the configuration sets pubDate, the record carries
\* the configured value.
C12_Claim ==
    [][Builds =>
          Built[s_pubDate] =
              IF s_pubDate \in DOMAIN conf
              THEN ValueFor(input[pos'["sync"]], conf[s_pubDate])
              ELSE PyIsoString(clock)]_vars

\* ------------------------------------------------------------ C13
\* C13: with skip true the RSS item builder's parser returns the original
\* item handed to it as feed, verbatim, together with skip = true, whatever
\* the item and the configuration are; so every item that passes the
\* pass_if test comes out of the pipe unchanged.
C13_SkipVerbatim ==
    kind = "rss" =>
        /\ \A item \in RssItems, feed \in RssItems :
              rss_parser(item, merge_defaults(DEFAULTS, conf), TRUE, feed)
                  = <<feed, TRUE>>
        /\ \A f \in Forms : \A i \in 1..Len(out[f]) :
              Skipped(input[i]) => out[f][i] = input[i]

C13_Witness ==
    /\ kind = "rss"
    /\ Len(out["sync"]) >= 2
    /\ Skipped(input[2])
    /\ ~Skipped(input[1])
    /\ s_guid \in DOMAIN conf
    /\ out["sync"][2] = input[2]
    /\ out["async"] = out["sync"]

\* ------------------------------------------------------------ C14
\* the texts that ask for k years from today
YearForms(k) == {e \in YearTexts : split_first(e) = str_int(k)}
YearOffsets == {1, 4}

\* the calendar date k years after a date: the same month and day, and for
\* 29 February in a year that is not leap the adjacent day the calendar has
YearsAfter(d, k) ==
    IF d.day <= DaysInMonth(d.year + k, d.month)
    THEN {[year |-> d.year + k, month |-> d.month, day |-> d.day]}
    ELSE {[year |-> d.year + k, month |-> 2, day |-> 28],
          [year |-> d.year + k, month |-> 3, day |-> 1]}

\* C14: an expression "<k> year" or "<k> years" yields the current date with
\* k added to its year, month and day preserved under the calendar's
\* rollover rules, for every current date, 29 February with a target year
\* that is not leap included (no error is raised).
C14_Claim ==
    [][\A k \in YearOffsets :
          (Resolves /\ ExprOf(Resolved) \in YearForms(k)) =>
              /\ status'["sync"] # "error"
              /\ Len(out'["sync"]) = Len(out["sync"]) + 1
              /\ Yielded.type = "struct_time"
              /\ ord2ymd(OrdinalOf(Yielded.tt))
                     \in YearsAfter(ord2ymd(OrdinalOf(clock)), k)]_vars

\* ------------------------------------------------------------ C15
\* the first alternative format that parses a text
FirstFormat(e) ==
    CHOOSE i \in 1..Len(ALTERNATIVE_DATE_FORMATS) :
        /\ ~IsException(strptime(PyStr(e), ALTERNATIVE_DATE_FORMATS[i]))
        /\ \A j \in 1..(i - 1) :
              IsException(strptime(PyStr(e), ALTERNATIVE_DATE_FORMATS[j]))

\* C15: an expression that has no day or year suffix and is no keyword, but
\* that an alternative date format parses, is resolved to the date parsed
\* with the first format that succeeds.
C15_Claim ==
    [][(Resolves /\ ExprOf(Resolved) \in AltTexts) =>
          /\ status'["sync"] # "error"
          /\ Len(out'["sync"]) = Len(out["sync"]) + 1
          /\ Yielded = timetuple(strptime(PyStr(ExprOf(Resolved)),
                           ALTERNATIVE_DATE_FORMATS[FirstFormat(ExprOf(Resolved))]))]_vars

\* ------------------------------------------------------------ C16
\* the tail pipe takes one more record from its stream
Receives(f) == kind = "tail" /\ pos'[f] = pos[f] + 1

\* C16: while the tail pipe consumes its stream it never holds more than N
\* records, in any intermediate state; a record received while N are held
\* evicts the oldest held record, and a record received while fewer are held
\* evicts none.
C16_BoundedWindow ==
    [][(kind = "tail" /\ CountOf(conf) >= 0) =>
          \A f \in Forms :
              /\ Len(buf[f]) <= CountOf(conf)
              /\ Len(buf'[f]) <= CountOf(conf)
              /\ (Receives(f) /\ Len(buf[f]) = CountOf(conf) /\ CountOf(conf) > 0)
                     => buf'[f] = Append(Tail(buf[f]), input[pos'[f]])
              /\ (Receives(f) /\ Len(buf[f]) < CountOf(conf))
                     => buf'[f] = Append(buf[f], input[pos'[f]])]_vars

C16_Witness ==
    /\ kind = "tail"
    /\ CountOf(conf) = 2
    /\ Len(input) = 3
    /\ pos["sync"] = 3
    /\ status["sync"] = "buffering"
    /\ buf["sync"] = <<input[2], input[3]>>
    /\ input[1] # input[2]
    /\ pos["async"] = 2
    /\ buf["async"] = <<input[1], input[2]>>

\* ------------------------------------------------------------ C17
\* C17: when count cannot be coerced to a non-negative integer (a negative
\* integer, a text that is no number, no value at all) the tail pipe's call
\* ends in an error, and that error comes before any record of the stream
\* is consumed, held or emitted.
C17_RejectedBeforeConsuming ==
    (kind = "tail" /\ CountOf(conf) < 0) =>
        \A f \in Forms :
            /\ status[f] \in {"idle", "error"}
            /\ pos[f] = 0
            /\ buf[f] = <<>>
            /\ out[f] = <<>>

C17_Witness ==
    /\ kind = "tail"
    /\ conf[s_count] \in {PyInt(0 - 1), PyStr(<<"x">>), None}
    /\ Len(input) = 3
    /\ status["sync"] = "error"
    /\ status["async"] = "error"

\* ------------------------------------------------------------ C18
\* what a generator has consumed of its upstream
Consumed(s) == SubSeq(Upstream(s), 1, pos[s])

\* a generator that has served every request made of it and has not ended
Served(s) == status[s] = "running" /\ ~want[s]

\* C18: the uniqueness filter and the date builder, in their synchronous
\* form, consume no upstream record before their consumer asks for an
\* output element, and to serve a request they consume upstream records
\* only up to and including the one that produces the element they return:
\* nothing is read ahead, so a prefix of the output needs only a prefix of
\* the input.
C18_Lazy ==
    /\ kind = "uniq" =>
          \A s \in Stages :
              /\ status[s] = "idle" => (pos[s] = 0 /\ out[s] = <<>>)
              /\ Served(s) =>
                    /\ pos[s] >= 1
                    /\ out[s] # <<>>
                    /\ out[s][Len(out[s])] = Upstream(s)[pos[s]]
                    /\ IF Bypassed THEN pos[s] = Len(out[s])
                       ELSE pos[s] \in FirstIdx(Consumed(s), FieldOf(conf))
    /\ kind = "date" =>
          /\ status["sync"] = "idle" => (pos["sync"] = 0 /\ out["sync"] = <<>>)
          /\ status["sync"] = "running" => pos["sync"] = Len(out["sync"])
          /\ Served("sync") => pos["sync"] >= 1

C18_Witness ==
    /\ kind = "uniq"
    /\ ~Bypassed
    /\ Len(input) = 3
    /\ Served("second")
    /\ Served("first")
    /\ Len(out["second"]) = 1
    /\ pos["first"] = 1
    /\ pos["second"] = 1

\* ------------------------------------------------------------ C19
\* the records of a sequence
Records(s) == {s[i] : i \in 1..Len(s)}

Lacks(r) == FieldOf(conf) \notin DOMAIN r

\* the positions of a sequence whose record lacks the field
LackingIdx(s) == {i \in 1..Len(s) : Lacks(s[i])}

\* C20: in the uniqueness filter the records that lack the configured field
\* count as having one and the same (absent) value: of the records consumed
\* the first that lacks the field is forwarded, every later one that lacks
\* it is dropped, and a record that lacks the field raises no error.
C20_AbsentIsOneValue ==
    (kind = "uniq" /\ ~Bypassed) =>
        LET lacking == LackingIdx(Consumed("first"))
            forwarded == LackingIdx(out["first"])
        IN  /\ Cardinality(forwarded) <= 1
            /\ status["first"] = "error" => pos["first"] \notin lacking
            /\ lacking # {} =>
                  /\ Cardinality(forwarded) = 1
                  /\ \A i \in forwarded : \A j \in lacking :
                        /\ out["first"][i] = input[j]
                              <=> input[j] = input[CHOOSE m \in lacking :
                                                      \A n \in lacking : m <= n]
            /\ \A i \in LackingIdx(out["second"]) :
                  out["second"][i] \in Records(out["first"])

C20_Witness ==
    /\ kind = "uniq"
    /\ ~Bypassed
    /\ Len(input) = 3
    /\ pos["first"] = 3
    /\ LackingIdx(input) = {1, 3}
    /\ input[1] # input[3]
    /\ status["first"] = "done"
    /\ out["first"] = <<input[1], input[2]>>
====
